---- MODULE Spec2Model ----
(***************************************************************************)
(* Model of the tagform backend service layer (src/services/formService.js *)
(* and its controllers) over the datastore tables it reads and writes.     *)
(*                                                                         *)
(* The specifications that share the module:                               *)
(*   SpecSlug        the pure text -> slug function _createSlug            *)
(*   SpecForm        createForm: slug probing, form insert under the       *)
(*                   (workspace_id, slug) unique index, settings insert    *)
(*   SpecSubmission  startSubmission / completeSubmission /                *)
(*                   updateFormAnalytics and the HTTP handlers in front    *)
(*   SpecQuestion    createQuestion / deleteQuestion / moveQuestion /      *)
(*                   reorderQuestions                                      *)
(*   SpecDeleteForm  deleteForm beside createQuestion                      *)
(*   SpecWorkspace   createWorkspace / getWorkspace / getFormBySlug /      *)
(*                   getFormByPath                                         *)
(*   SpecChoice      updateQuestion / reorderQuestionChoices               *)
(* Every datastore round trip (one awaited supabase call) is one atomic    *)
(* step; concurrent requests interleave between round trips.               *)
(***************************************************************************)
EXTENDS Integers, Sequences, FiniteSets, Bags, TLC

\* ------------------------------------------------------------------------
\* Bounds
\* ------------------------------------------------------------------------
MaxLen == 4            \* longest input string drawn for _createSlug
MaxForms == 3          \* form rows created in SpecForm
MaxSubmissionCalls == 3 \* HTTP submission requests issued in SpecSubmission
MaxResponses == 1      \* longest responses[] array of a complete request
MaxQuestions == 3      \* question rows created in SpecQuestion and SpecDeleteForm
MaxChoices == 1        \* longest choices[] array of a createQuestion call
MaxReorder == 2        \* longest questionOrder[] array of a reorderQuestions call
MaxQuestionCalls == 3  \* calls issued in SpecQuestion and in SpecDeleteForm
MaxChoiceTexts == 2    \* longest choices[] array of an updateQuestion call
MaxChoiceCalls == 3    \* calls issued in SpecChoice

\* ------------------------------------------------------------------------
\* Characters and strings.  A string is a sequence of one-character strings.
\* ------------------------------------------------------------------------
UpperChars == {"A", "F", "Q", "S"}
LowerChars == {"a", "b", "c", "d", "e", "f", "k", "q", "r", "s", "u", "v", "y"}
DigitChars == {"0", "1", "2", "3", "4", "5", "6", "7", "8", "9"}
SpaceChars == {" "}

\* the characters the drawn inputs are made of: one per class the regular
\* expressions of _createSlug distinguish
Alphabet == {"A", "b", "1", " ", "_", "-", "!"}

RECURSIVE StringsUpTo(_)
StringsUpTo(n) ==
  IF n = 0 THEN {<<>>}
  ELSE LET shorter == StringsUpTo(n - 1)
       IN  shorter \cup {Append(s, c) : s \in {t \in shorter : Len(t) = n - 1}, c \in Alphabet}

\* String.prototype.toLowerCase on one character
toLowerCase(c) ==
  CASE c = "A" -> "a"
    [] c = "F" -> "f"
    [] c = "Q" -> "q"
    [] c = "S" -> "s"
    [] OTHER -> c

\* regular-expression classes \s and \w
IsSpace(c) == c \in SpaceChars
IsWord(c) == c \in UpperChars \cup LowerChars \cup DigitChars \cup {"_"}

RECURSIVE MapLower(_)
MapLower(s) == IF s = <<>> THEN <<>> ELSE <<toLowerCase(Head(s))>> \o MapLower(Tail(s))

RECURSIVE DropLeading(_, _)
DropLeading(s, C) ==
  IF s # <<>> /\ Head(s) \in C THEN DropLeading(Tail(s), C) ELSE s

RECURSIVE DropTrailing(_, _)
DropTrailing(s, C) ==
  IF s # <<>> /\ s[Len(s)] \in C THEN DropTrailing(SubSeq(s, 1, Len(s) - 1), C) ELSE s

\* String.prototype.trim
trim(s) == DropTrailing(DropLeading(s, SpaceChars), SpaceChars)

\* .replace(/[^\w\s-]/g, '')
KeepChar(c) == IsWord(c) \/ IsSpace(c) \/ c = "-"
RemoveNonWord(s) == SelectSeq(s, KeepChar)

\* .replace(/[\s_-]+/g, '-') : every maximal run of separators becomes one "-"
SeparatorChars == SpaceChars \cup {"_", "-"}

RECURSIVE ReplaceRuns(_, _)
ReplaceRuns(s, C) ==
  IF s = <<>> THEN <<>>
  ELSE IF Head(s) \in C
       THEN <<"-">> \o ReplaceRuns(DropLeading(s, C), C)
       ELSE <<Head(s)>> \o ReplaceRuns(Tail(s), C)

HyphenSeparatorsMutant(s) == ReplaceRuns(s, SpaceChars \cup {"_"})
HyphenSeparators(s) == ReplaceRuns(s, SeparatorChars)

\* .replace(/^-+|-+$/g, '')
TrimHyphens(s) == DropTrailing(DropLeading(s, {"-"}), {"-"})

\* FormService._createSlug
_createSlugMutant(str) ==
  HyphenSeparators(TrimHyphens(RemoveNonWord(trim(MapLower(str)))))
_createSlug(str) ==
  TrimHyphens(HyphenSeparators(RemoveNonWord(trim(MapLower(str)))))

\* ------------------------------------------------------------------------
\* State
\* ------------------------------------------------------------------------
VARIABLES
  \* SpecSlug
  slugPc,            \* "input" before the call of _createSlug, "done" after
  slugIn,            \* the argument str
  slugOut,           \* the returned slug
  \* SpecForm: tables forms and form_settings, and the createForm requests
  forms,             \* set of rows [id, workspace_id, name, slug]
  form_settings,     \* set of rows [form_id]
  nextFormId,        \* next primary key handed out for a forms row
  fcall,             \* per caller: position and locals of its createForm request
  \* SpecSubmission: tables and the submission requests
  form_submissions,  \* set of rows [id, form_id, email, status, started_at, completed_at, completion_time]
  question_responses, \* bag of rows [submission_id, question_id]
  form_analytics,    \* per form: NoRow or [total_submissions, average_completion_time]
  nextSubmissionId,  \* next primary key handed out for a form_submissions row
  clock,             \* new Date(): advances after every completion stamp
  scall,             \* per caller: position and locals of its submission request
  callsMade,         \* number of submission requests issued so far
  returned,          \* history: the (form, email, id) triples startSubmission has returned
  completeThrew,     \* history: some completeSubmission call has raised an error
  \* SpecQuestion, SpecDeleteForm: tables and the question and deleteForm calls
  questions,         \* set of rows [id, form_id, parent_id, order, path]
  question_choices,  \* set of rows [question_id, order]
  nextQuestionId,    \* next primary key handed out for a questions row
  qcall,             \* per caller: position and locals of its question or deleteForm call
  questionCalls,     \* number of question and deleteForm calls issued so far
  \* SpecWorkspace: table workspaces and the workspace and lookup requests
  workspaces,        \* set of rows [id, name, type, user_id, slug]
  wcall,             \* per caller: position and locals of its workspace or lookup request
  \* SpecChoice: the updateQuestion and reorderQuestionChoices calls; there the
  \* rows of question_choices are [id, question_id, text, order]
  nextChoiceId,      \* next primary key handed out for a question_choices row
  ccall,             \* per caller: position and locals of its choice call
  choiceCalls        \* number of choice calls issued so far

slugVars == <<slugPc, slugIn, slugOut>>
formVars == <<forms, form_settings, nextFormId, fcall>>
subVars == <<form_submissions, question_responses, form_analytics, nextSubmissionId,
             clock, scall, callsMade, returned, completeThrew>>
questionVars == <<questions, question_choices, nextQuestionId, qcall, questionCalls>>
workspaceVars == <<workspaces, wcall>>
choiceVars == <<nextChoiceId, ccall, choiceCalls>>
vars == <<slugVars, formVars, subVars, questionVars, workspaceVars, choiceVars>>

Callers == {"c1", "c2"}
Null == -1             \* JavaScript null / SQL NULL in a numeric column
NoRow == [exists |-> FALSE]

\* ------------------------------------------------------------------------
\* SpecSlug: _createSlug applied to every string over Alphabet up to MaxLen
\* ------------------------------------------------------------------------
CallCreateSlug ==
  /\ slugPc = "input"
  /\ slugOut' = _createSlug(slugIn)
  /\ slugPc' = "done"
  /\ UNCHANGED slugIn
  /\ UNCHANGED <<formVars, subVars, questionVars, workspaceVars, choiceVars>>

NextSlug == CallCreateSlug

\* ------------------------------------------------------------------------
\* SpecForm: FormController.createForm -> FormService.createForm
\* ------------------------------------------------------------------------
Workspaces == {"w1", "w2"}

NameEmpty == <<>>
NameFeedback == <<"F", "e", "e", "d", "b", "a", "c", "k">>
NameFeedback1 == <<"F", "e", "e", "d", "b", "a", "c", "k", " ", "1">>
FormNames == {NameEmpty, NameFeedback, NameFeedback1}

\* `${counter}` : the decimal digits of a non-negative integer
DigitOf(n) == <<"0", "1", "2", "3", "4", "5", "6", "7", "8", "9">>[n + 1]

RECURSIVE Decimal(_)
Decimal(n) == IF n < 10 THEN <<DigitOf(n)>> ELSE Decimal(n \div 10) \o <<DigitOf(n % 10)>>

\* `${this._createSlug(name)}-${counter}`
NumberedSlugMutant(name, counter) == _createSlug(name) \o <<"-">> \o Decimal(counter + 1)
NumberedSlug(name, counter) == _createSlug(name) \o <<"-">> \o Decimal(counter)

\* FormService._validateUniqueSlug: .single() yields data only for exactly one
\* matching row; no row is the tolerated PGRST116 error and data stays null
_validateUniqueSlug(workspaceId, slug) ==
  Cardinality({f \in forms : f.workspace_id = workspaceId /\ f.slug = slug}) # 1

\* CREATE UNIQUE INDEX forms_workspace_slug_idx ON forms (workspace_id, slug):
\* TRUE when inserting row into rows is rejected
forms_workspace_slug_idx_Mutant(rows, row) == FALSE
forms_workspace_slug_idx(rows, row) ==
  \E f \in rows : f.workspace_id = row.workspace_id /\ f.slug = row.slug

IdleFormCall ==
  [pc |-> "idle", workspaceId |-> "", name |-> <<>>, slug |-> <<>>, counter |-> 0,
   isUnique |-> FALSE, formId |-> 0, status |-> 0, error |-> ""]

FormCallInFlight(c) == fcall[c].pc \in {"probing", "settings"}

\* the handler has answered: its locals are gone, the HTTP status and the
\* id of the form it sent remain
FormAnswered(status, error, formId) ==
  [IdleFormCall EXCEPT !.pc = "done", !.status = status, !.error = error, !.formId = formId]

\* POST /api/workspaces/:workspaceId/forms arrives; the handler rejects a
\* missing name, otherwise createForm builds the slug and probes it once
CreateFormRequest(c, workspaceId, name) ==
  /\ fcall[c].pc \in {"idle", "done"}
  /\ Cardinality(forms) + Cardinality({d \in Callers : FormCallInFlight(d)}) < MaxForms
  /\ IF name = <<>>
     THEN fcall' = [fcall EXCEPT ![c] = FormAnswered(400, "name_required", 0)]
     ELSE fcall' = [fcall EXCEPT ![c] =
            [IdleFormCall EXCEPT !.pc = "probing", !.workspaceId = workspaceId,
                                 !.name = name, !.slug = _createSlug(name),
                                 !.isUnique = _validateUniqueSlug(workspaceId, _createSlug(name)),
                                 !.counter = 1]]
  /\ UNCHANGED <<forms, form_settings, nextFormId>>
  /\ UNCHANGED <<slugVars, subVars, questionVars, workspaceVars, choiceVars>>

\* one iteration of while (!isUnique)
ProbeNextSlug(c) ==
  /\ fcall[c].pc = "probing"
  /\ ~fcall[c].isUnique
  /\ LET slug == NumberedSlug(fcall[c].name, fcall[c].counter)
     IN  fcall' = [fcall EXCEPT ![c].slug = slug,
                                ![c].isUnique = _validateUniqueSlug(fcall[c].workspaceId, slug),
                                ![c].counter = fcall[c].counter + 1]
  /\ UNCHANGED <<forms, form_settings, nextFormId>>
  /\ UNCHANGED <<slugVars, subVars, questionVars, workspaceVars, choiceVars>>

\* insert into forms; a rejected insert is thrown and answered with 500
InsertForm(c) ==
  /\ fcall[c].pc = "probing"
  /\ fcall[c].isUnique
  /\ LET row == [id |-> nextFormId, workspace_id |-> fcall[c].workspaceId,
                 name |-> fcall[c].name, slug |-> fcall[c].slug]
     IN  IF forms_workspace_slug_idx(forms, row)
         THEN /\ fcall' = [fcall EXCEPT ![c] = FormAnswered(500, "unique_violation", 0)]
              /\ UNCHANGED <<forms, nextFormId>>
         ELSE /\ forms' = forms \cup {row}
              /\ nextFormId' = nextFormId + 1
              /\ fcall' = [fcall EXCEPT ![c].pc = "settings", ![c].formId = row.id]
  /\ UNCHANGED form_settings
  /\ UNCHANGED <<slugVars, subVars, questionVars, workspaceVars, choiceVars>>

\* insert into form_settings; ok = FALSE is a datastore error on that insert
InsertSettingsCompensating(c, ok) ==
  /\ fcall[c].pc = "settings"
  /\ IF ok
     THEN /\ form_settings' = form_settings \cup {[form_id |-> fcall[c].formId]}
          /\ fcall' = [fcall EXCEPT ![c] = FormAnswered(201, "", fcall[c].formId)]
          /\ UNCHANGED forms
     ELSE /\ fcall' = [fcall EXCEPT ![c] = FormAnswered(500, "settings_failed", 0)]
          /\ forms' = {f \in forms : f.id # fcall[c].formId}
          /\ UNCHANGED form_settings
  /\ UNCHANGED nextFormId
  /\ UNCHANGED <<slugVars, subVars, questionVars, workspaceVars, choiceVars>>
InsertSettings(c, ok) ==
  /\ fcall[c].pc = "settings"
  /\ IF ok
     THEN /\ form_settings' = form_settings \cup {[form_id |-> fcall[c].formId]}
          /\ fcall' = [fcall EXCEPT ![c] = FormAnswered(201, "", fcall[c].formId)]
     ELSE /\ fcall' = [fcall EXCEPT ![c] = FormAnswered(500, "settings_failed", 0)]
          /\ UNCHANGED form_settings
  /\ UNCHANGED <<forms, nextFormId>>
  /\ UNCHANGED <<slugVars, subVars, questionVars, workspaceVars, choiceVars>>

NextForm ==
  \/ \E c \in Callers, w \in Workspaces, n \in FormNames : CreateFormRequest(c, w, n)
  \/ \E c \in Callers : ProbeNextSlug(c)
  \/ \E c \in Callers : InsertForm(c)
  \/ \E c \in Callers, ok \in BOOLEAN : InsertSettings(c, ok)

\* ------------------------------------------------------------------------
\* SpecSubmission: the submission handlers, startSubmission,
\* completeSubmission, updateFormAnalytics and the insert trigger
\* ------------------------------------------------------------------------
SubmissionForms == {"f1", "f2"}
WellFormedEmails == {"ann@x.io", "bob@x.io"}
Emails == WellFormedEmails \cup {"", "nobody"}
Questions == {"q1"}
CompletionTimes == {4}

\* the non-empty responses[] arrays up to MaxResponses entries
RECURSIVE ResponsesUpTo(_)
ResponsesUpTo(n) ==
  IF n = 0 THEN {<<>>}
  ELSE LET shorter == ResponsesUpTo(n - 1)
       IN  shorter \cup {Append(s, q) : s \in {t \in shorter : Len(t) = n - 1}, q \in Questions}
ResponseLists == ResponsesUpTo(MaxResponses) \ {<<>>}

\* /^[^\s@]+@[^\s@]+\.[^\s@]+$/ .test(email), on the addresses drawn
emailRegexTest(email) == email \in WellFormedEmails

NoResult == [kind |-> "none", id |-> 0, completedAt |-> Null]

IdleSubmissionCall ==
  [pc |-> "idle", op |-> "", formId |-> "", email |-> "", submissionId |-> 0,
   responses |-> <<>>, completionTime |-> Null, totalSubmissions |-> 0,
   averageCompletionTime |-> 0, result |-> NoResult, status |-> 0]

\* sum of completion_time || 0 over a set of rows
RECURSIVE SumCompletionTime(_)
SumCompletionTime(rows) ==
  IF rows = {} THEN 0
  ELSE LET r == CHOOSE x \in rows : TRUE
       IN  (IF r.completion_time = Null THEN 0 ELSE r.completion_time)
           + SumCompletionTime(rows \ {r})

\* Math.round(sum / n) for sum >= 0, n > 0
RoundDiv(sum, n) == (2 * sum + n) \div (2 * n)

\* trigger update_form_analytics_after_submission (after insert on
\* form_submissions): count(*) and avg(completion_time) over all rows of the form
update_form_analytics(rows, formId) ==
  LET ofForm == {r \in rows : r.form_id = formId}
      timed == {r \in ofForm : r.completion_time # Null}
  IN  [exists |-> TRUE,
       total_submissions |-> Cardinality(ofForm),
       average_completion_time |->
         IF timed = {} THEN Null ELSE RoundDiv(SumCompletionTime(timed), Cardinality(timed))]

\* unique(form_id, email) of form_submissions: TRUE when the insert is rejected
form_submissions_unique_Mutant(rows, row) == FALSE
form_submissions_unique(rows, row) ==
  \E r \in rows : r.form_id = row.form_id /\ r.email = row.email

\* .from('form_submissions').select('*').eq('form_id', formId).eq('email', email)
ExistingSubmissionInProgressOnly(formId, email) ==
  {r \in form_submissions : r.form_id = formId /\ r.email = email /\ r.status = "in_progress"}
ExistingSubmissionCompletedOnly(formId, email) ==
  {r \in form_submissions : r.form_id = formId /\ r.email = email /\ r.status = "completed"}
ExistingSubmission(formId, email) ==
  {r \in form_submissions : r.form_id = formId /\ r.email = email}

SubmissionCallIdle(c) == scall[c].pc \in {"idle", "done"}

\* the handler has answered: its locals are gone, the HTTP status and the
\* body it sent remain
Answered(op, status, result) ==
  [IdleSubmissionCall EXCEPT !.pc = "done", !.op = op, !.status = status, !.result = result]

\* POST /:formId/submissions/start arrives: FormController.startSubmission
\* validates the email before it calls the service
StartSubmissionRequest(c, formId, email) ==
  /\ SubmissionCallIdle(c)
  /\ callsMade < MaxSubmissionCalls
  /\ callsMade' = callsMade + 1
  /\ IF email = "" \/ ~emailRegexTest(email)
     THEN scall' = [scall EXCEPT ![c] =
            Answered("start", 400, [NoResult EXCEPT !.kind = "error"])]
     ELSE scall' = [scall EXCEPT ![c] =
            [IdleSubmissionCall EXCEPT !.pc = "start_check", !.op = "start",
                                       !.formId = formId, !.email = email]]
  /\ UNCHANGED <<form_submissions, question_responses, form_analytics, nextSubmissionId,
                 clock, returned, completeThrew>>
  /\ UNCHANGED <<slugVars, formVars, questionVars, workspaceVars, choiceVars>>

\* FormService.startSubmission, first round trip: look for an existing row.
\* Both return paths end in res.status(201).json(submission).
StartCheck(c) ==
  /\ scall[c].pc = "start_check"
  /\ LET found == ExistingSubmission(scall[c].formId, scall[c].email)
     IN  IF Cardinality(found) = 1
         THEN LET existingSubmission == CHOOSE r \in found : TRUE
              IN  IF existingSubmission.status = "completed"
                  THEN /\ scall' = [scall EXCEPT ![c] = Answered("start", 201,
                              [kind |-> "conflict", id |-> existingSubmission.id,
                               completedAt |-> existingSubmission.completed_at])]
                       /\ UNCHANGED returned
                  ELSE /\ scall' = [scall EXCEPT ![c] = Answered("start", 201,
                              [kind |-> "submission", id |-> existingSubmission.id,
                               completedAt |-> existingSubmission.completed_at])]
                       /\ returned' = returned \cup
                            {<<scall[c].formId, scall[c].email, existingSubmission.id>>}
         ELSE /\ scall' = [scall EXCEPT ![c].pc = "start_insert"]
              /\ UNCHANGED returned
  /\ UNCHANGED <<form_submissions, question_responses, form_analytics, nextSubmissionId,
                 clock, callsMade, completeThrew>>
  /\ UNCHANGED <<slugVars, formVars, questionVars, workspaceVars, choiceVars>>

\* FormService.startSubmission, second round trip: insert the in_progress row;
\* a rejected insert is thrown as 'Failed to create submission' and answered 500
StartInsert(c) ==
  /\ scall[c].pc = "start_insert"
  /\ LET row == [id |-> nextSubmissionId, form_id |-> scall[c].formId,
                 email |-> scall[c].email, status |-> "in_progress",
                 started_at |-> clock, completed_at |-> Null, completion_time |-> Null]
     IN  IF form_submissions_unique(form_submissions, row)
         THEN /\ scall' = [scall EXCEPT ![c] =
                              Answered("start", 500, [NoResult EXCEPT !.kind = "error"])]
              /\ UNCHANGED <<form_submissions, form_analytics, nextSubmissionId, returned>>
         ELSE /\ form_submissions' = form_submissions \cup {row}
              /\ form_analytics' = [form_analytics EXCEPT ![row.form_id] =
                                      update_form_analytics(form_submissions', row.form_id)]
              /\ nextSubmissionId' = nextSubmissionId + 1
              /\ scall' = [scall EXCEPT ![c] = Answered("start", 201,
                              [kind |-> "submission", id |-> row.id, completedAt |-> Null])]
              /\ returned' = returned \cup {<<row.form_id, row.email, row.id>>}
  /\ UNCHANGED <<question_responses, clock, callsMade, completeThrew>>
  /\ UNCHANGED <<slugVars, formVars, questionVars, workspaceVars, choiceVars>>

\* POST /:formId/submissions/:submissionId/complete arrives:
\* FormController.completeSubmission rejects a body whose responses is no array
CompleteSubmissionRequest(c, formId, submissionId, isArray, responses, completionTime) ==
  /\ SubmissionCallIdle(c)
  /\ callsMade < MaxSubmissionCalls
  /\ callsMade' = callsMade + 1
  /\ IF ~isArray
     THEN scall' = [scall EXCEPT ![c] =
            Answered("complete", 400, [NoResult EXCEPT !.kind = "error"])]
     ELSE scall' = [scall EXCEPT ![c] =
            [IdleSubmissionCall EXCEPT !.pc = "complete_update", !.op = "complete",
                                       !.formId = formId, !.submissionId = submissionId,
                                       !.responses = responses,
                                       !.completionTime = completionTime]]
  /\ UNCHANGED <<form_submissions, question_responses, form_analytics, nextSubmissionId,
                 clock, returned, completeThrew>>
  /\ UNCHANGED <<slugVars, formVars, questionVars, workspaceVars, choiceVars>>

\* .update({status, completed_at, completion_time}).eq('id', submissionId).eq('form_id', formId)
UpdateCompletedNoStamp(rows, formId, submissionId, now, completionTime) ==
  {IF r.id = submissionId /\ r.form_id = formId
   THEN [r EXCEPT !.status = "completed", !.completion_time = completionTime]
   ELSE r : r \in rows}
UpdateCompleted(rows, formId, submissionId, now, completionTime) ==
  {IF r.id = submissionId /\ r.form_id = formId
   THEN [r EXCEPT !.status = "completed", !.completed_at = now,
                  !.completion_time = completionTime]
   ELSE r : r \in rows}

\* FormService.completeSubmission, first round trip: the status update.
\* An update that matches no row is no error.
CompleteUpdate(c) ==
  /\ scall[c].pc = "complete_update"
  /\ form_submissions' = UpdateCompleted(form_submissions, scall[c].formId,
                            scall[c].submissionId, clock, scall[c].completionTime)
  /\ clock' = clock + 1
  /\ scall' = [scall EXCEPT ![c].pc = "complete_responses"]
  /\ UNCHANGED <<question_responses, form_analytics, nextSubmissionId, callsMade,
                 returned, completeThrew>>
  /\ UNCHANGED <<slugVars, formVars, questionVars, workspaceVars, choiceVars>>

\* responses.map(response => ({submission_id, question_id, response_data}))
RECURSIVE formattedResponses(_, _)
formattedResponses(submissionId, responses) ==
  IF responses = <<>> THEN EmptyBag
  ELSE SetToBag({[submission_id |-> submissionId, question_id |-> Head(responses)]})
       (+) formattedResponses(submissionId, Tail(responses))

\* question_responses.submission_id references form_submissions(id)
ResponseForeignKeyHolds(submissionId) ==
  \E r \in form_submissions : r.id = submissionId

\* FormService.completeSubmission, second round trip: insert the responses.
\* ok = FALSE is a datastore error on that insert; an error is thrown as
\* 'Failed to save responses' and answered 500, with nothing undone.
CompleteInsertResponses(c, ok) ==
  /\ scall[c].pc = "complete_responses"
  /\ IF ok /\ ResponseForeignKeyHolds(scall[c].submissionId)
     THEN /\ question_responses' = question_responses
                (+) formattedResponses(scall[c].submissionId, scall[c].responses)
          /\ scall' = [scall EXCEPT ![c].pc = "analytics_select"]
          /\ UNCHANGED completeThrew
     ELSE /\ scall' = [scall EXCEPT ![c] =
                          Answered("complete", 500, [NoResult EXCEPT !.kind = "error"])]
          /\ completeThrew' = TRUE
          /\ UNCHANGED question_responses
  /\ UNCHANGED <<form_submissions, form_analytics, nextSubmissionId, clock, callsMade,
                 returned>>
  /\ UNCHANGED <<slugVars, formVars, questionVars, workspaceVars, choiceVars>>

\* FormService.updateFormAnalytics, first round trip: read the completed
\* submissions of the form and aggregate them in memory
CompletedSubmissions(formId) ==
  {r \in form_submissions : r.form_id = formId /\ r.status = "completed"}

AnalyticsSelect(c) ==
  /\ scall[c].pc = "analytics_select"
  /\ LET submissions == CompletedSubmissions(scall[c].formId)
         totalSubmissions == Cardinality(submissions)
     IN  scall' = [scall EXCEPT
           ![c].pc = "analytics_upsert",
           ![c].totalSubmissions = totalSubmissions,
           ![c].averageCompletionTime =
              IF totalSubmissions > 0
              THEN RoundDiv(SumCompletionTime(submissions), totalSubmissions)
              ELSE 0]
  /\ UNCHANGED <<form_submissions, question_responses, form_analytics, nextSubmissionId,
                 clock, callsMade, returned, completeThrew>>
  /\ UNCHANGED <<slugVars, formVars, questionVars, workspaceVars, choiceVars>>

\* FormService.updateFormAnalytics, second round trip: upsert the analytics
\* row; completeSubmission then returns {success: true}, answered 200
AnalyticsUpsert(c) ==
  /\ scall[c].pc = "analytics_upsert"
  /\ form_analytics' = [form_analytics EXCEPT ![scall[c].formId] =
        [exists |-> TRUE,
         total_submissions |-> scall[c].totalSubmissions,
         average_completion_time |-> scall[c].averageCompletionTime]]
  /\ scall' = [scall EXCEPT ![c] =
                  Answered("complete", 200, [NoResult EXCEPT !.kind = "success"])]
  /\ UNCHANGED <<form_submissions, question_responses, nextSubmissionId, clock, callsMade,
                 returned, completeThrew>>
  /\ UNCHANGED <<slugVars, formVars, questionVars, workspaceVars, choiceVars>>

NextSubmission ==
  \/ \E c \in Callers, f \in SubmissionForms, e \in Emails : StartSubmissionRequest(c, f, e)
  \/ \E c \in Callers : StartCheck(c)
  \/ \E c \in Callers : StartInsert(c)
  \/ \E c \in Callers, f \in SubmissionForms, id \in 1..nextSubmissionId,
        isArray \in BOOLEAN, rs \in ResponseLists, t \in CompletionTimes :
        CompleteSubmissionRequest(c, f, id, isArray, rs, t)
  \/ \E c \in Callers : CompleteUpdate(c)
  \/ \E c \in Callers, ok \in BOOLEAN : CompleteInsertResponses(c, ok)
  \/ \E c \in Callers : AnalyticsSelect(c)
  \/ \E c \in Callers : AnalyticsUpsert(c)

\* ------------------------------------------------------------------------
\* SpecQuestion and SpecDeleteForm: the tables questions and
\* question_choices with their foreign keys and the path trigger, and
\* createQuestion, deleteQuestion, moveQuestion, reorderQuestions, deleteForm
\* ------------------------------------------------------------------------
QuestionIds == 1..MaxQuestions
ChoiceCounts == 0..MaxChoices

\* the forms the question handlers are called for: two forms of one workspace
\* that createForm made from the same name; the settings insert of the second
\* one failed
InitialForms ==
  {[id |-> 1, workspace_id |-> "w1", name |-> NameFeedback, slug |-> _createSlug(NameFeedback)],
   [id |-> 2, workspace_id |-> "w1", name |-> NameFeedback, slug |-> NumberedSlug(NameFeedback, 1)]}
InitialSettings == {[form_id |-> 1]}
FormIds == {f.id : f \in InitialForms}

\* the questions SpecQuestion starts from: two createQuestion calls for the
\* first form, one after the other
InitialQuestions ==
  {[id |-> 1, form_id |-> 1, parent_id |-> Null, order |-> 1, path |-> <<1>>],
   [id |-> 2, form_id |-> 1, parent_id |-> Null, order |-> 2, path |-> <<2>>]}

HasQuestion(rows, id) == \E r \in rows : r.id = id
QuestionRow(rows, id) == CHOOSE r \in rows : r.id = id
QuestionsOfForm(rows, formId) == {r \in rows : r.form_id = formId}
MaxOrder(rows) == CHOOSE n \in {r.order : r \in rows} : \A r \in rows : r.order <= n

\* trigger update_question_path, before insert or update of parent_id, for
\* the one row written: the own id, or the parent's stored path and the own id
update_question_path(rows, id, parent_id) ==
  IF parent_id = Null THEN <<id>>
  ELSE IF HasQuestion(rows, parent_id) THEN QuestionRow(rows, parent_id).path \o <<id>>
  ELSE <<>>

\* parent_id references questions(id) on delete cascade: the rows that go
\* with the rows ids
RECURSIVE questions_parent_id_fkey(_, _)
questions_parent_id_fkey(rows, ids) ==
  LET more == ids \cup {r.id : r \in {x \in rows : x.parent_id \in ids}}
  IN  IF more = ids THEN ids ELSE questions_parent_id_fkey(rows, more)

\* delete from questions where id in ids
DeleteQuestions(rows, ids) == {r \in rows : r.id \notin questions_parent_id_fkey(rows, ids)}

\* question_id references questions(id) on delete cascade
question_choices_question_id_fkey(choices, rows) ==
  {ch \in choices : HasQuestion(rows, ch.question_id)}

\* form_id references forms(id) on delete cascade, of questions
questions_form_id_fkey_Mutant(rows, formId) == rows
questions_form_id_fkey(rows, formId) ==
  DeleteQuestions(rows, {r.id : r \in QuestionsOfForm(rows, formId)})

\* form_id references forms(id) on delete cascade, of form_settings
form_settings_form_id_fkey(rows, formId) == {s \in rows : s.form_id # formId}

IdleQuestionCall ==
  [pc |-> "idle", op |-> "", formId |-> 0, questionId |-> 0, newParentId |-> 0,
   nextOrder |-> 0, choices |-> 0, todo |-> {}, hasSettings |-> FALSE, result |-> ""]

\* the caller is free to issue its next call
QuestionCallIdle(c) == qcall[c].pc \in {"idle", "done"} /\ questionCalls < MaxQuestionCalls

\* the call has returned or thrown: its locals are gone
QuestionAnswered(op, formId, result) ==
  [IdleQuestionCall EXCEPT !.pc = "done", !.op = op, !.formId = formId, !.result = result]

CreatesInFlight == {d \in Callers : qcall[d].pc \in {"maxorder", "insert"}}

\* createQuestion(formId, {..., choices}) is called
CreateQuestionRequest(c, formId, choices) ==
  /\ QuestionCallIdle(c)
  /\ nextQuestionId + Cardinality(CreatesInFlight) <= MaxQuestions
  /\ qcall' = [qcall EXCEPT ![c] =
       [IdleQuestionCall EXCEPT !.pc = "maxorder", !.op = "createQuestion",
                                !.formId = formId, !.choices = choices]]
  /\ UNCHANGED <<questions, question_choices, nextQuestionId>>
  /\ questionCalls' = questionCalls + 1
  /\ UNCHANGED <<slugVars, formVars, subVars, workspaceVars, choiceVars>>

\* select order ... eq form_id, order desc, limit 1;
\* nextOrder = questions?.[0]?.order + 1 || 1
CreateSelectMaxOrder(c) ==
  /\ qcall[c].pc = "maxorder"
  /\ LET rows == QuestionsOfForm(questions, qcall[c].formId)
     IN  qcall' = [qcall EXCEPT ![c].pc = "insert",
                                ![c].nextOrder = IF rows = {} THEN 1 ELSE MaxOrder(rows) + 1]
  /\ UNCHANGED <<questions, question_choices, nextQuestionId>>
  /\ UNCHANGED questionCalls
  /\ UNCHANGED <<slugVars, formVars, subVars, workspaceVars, choiceVars>>

\* insert into questions; the row has no parent_id, the trigger sets its path
CreateInsertQuestion(c) ==
  /\ qcall[c].pc = "insert"
  /\ IF \E f \in forms : f.id = qcall[c].formId
     THEN /\ questions' = questions \cup
               {[id |-> nextQuestionId, form_id |-> qcall[c].formId, parent_id |-> Null,
                 order |-> qcall[c].nextOrder,
                 path |-> update_question_path(questions, nextQuestionId, Null)]}
          /\ nextQuestionId' = nextQuestionId + 1
          /\ IF qcall[c].choices > 0
             THEN qcall' = [qcall EXCEPT ![c].pc = "choices", ![c].questionId = nextQuestionId]
             ELSE qcall' = [qcall EXCEPT ![c] = QuestionAnswered("createQuestion", 0, "ok")]
     ELSE /\ qcall' = [qcall EXCEPT ![c] = QuestionAnswered("createQuestion", 0, "error")]
          /\ UNCHANGED <<questions, nextQuestionId>>
  /\ UNCHANGED question_choices
  /\ UNCHANGED questionCalls
  /\ UNCHANGED <<slugVars, formVars, subVars, workspaceVars, choiceVars>>

\* insert into question_choices, order = index + 1
CreateInsertChoices(c) ==
  /\ qcall[c].pc = "choices"
  /\ IF HasQuestion(questions, qcall[c].questionId)
     THEN /\ question_choices' = question_choices \cup
               {[question_id |-> qcall[c].questionId, order |-> i] : i \in 1..qcall[c].choices}
          /\ qcall' = [qcall EXCEPT ![c] = QuestionAnswered("createQuestion", 0, "ok")]
     ELSE /\ qcall' = [qcall EXCEPT ![c] = QuestionAnswered("createQuestion", 0, "error")]
          /\ UNCHANGED question_choices
  /\ UNCHANGED <<questions, nextQuestionId>>
  /\ UNCHANGED questionCalls
  /\ UNCHANGED <<slugVars, formVars, subVars, workspaceVars, choiceVars>>

\* deleteQuestion(questionId): delete from questions where id = questionId
DeleteQuestion(c, questionId) ==
  /\ QuestionCallIdle(c)
  /\ questions' = DeleteQuestions(questions, {questionId})
  /\ question_choices' = question_choices_question_id_fkey(question_choices, questions')
  /\ qcall' = [qcall EXCEPT ![c] = QuestionAnswered("deleteQuestion", 0, "ok")]
  /\ UNCHANGED nextQuestionId
  /\ questionCalls' = questionCalls + 1
  /\ UNCHANGED <<slugVars, formVars, subVars, workspaceVars, choiceVars>>

\* moveQuestion(questionId, newParentId) is called; if (newParentId) guards
\* the verification
MoveQuestionRequest(c, questionId, newParentId) ==
  /\ QuestionCallIdle(c)
  /\ qcall' = [qcall EXCEPT ![c] =
       [IdleQuestionCall EXCEPT !.pc = IF newParentId = Null THEN "update" ELSE "check",
                                !.op = "moveQuestion",
                                !.questionId = questionId, !.newParentId = newParentId]]
  /\ UNCHANGED <<questions, question_choices, nextQuestionId>>
  /\ questionCalls' = questionCalls + 1
  /\ UNCHANGED <<slugVars, formVars, subVars, workspaceVars, choiceVars>>

\* select form_id ... in (id, [questionId, newParentId]);
\* questions.length !== 2 || questions[0].form_id !== questions[1].form_id
SameFormPairMutant(rows, questionId, newParentId) ==
  Cardinality({r \in rows : r.id \in {questionId, newParentId}}) = 2
SameFormPair(rows, questionId, newParentId) ==
  LET found == {r \in rows : r.id \in {questionId, newParentId}}
  IN  /\ Cardinality(found) = 2
      /\ \A a, b \in found : a.form_id = b.form_id

MoveCheck(c) ==
  /\ qcall[c].pc = "check"
  /\ IF SameFormPair(questions, qcall[c].questionId, qcall[c].newParentId)
     THEN qcall' = [qcall EXCEPT ![c].pc = "update"]
     ELSE qcall' = [qcall EXCEPT ![c] = QuestionAnswered("moveQuestion", 0, "error")]
  /\ UNCHANGED <<questions, question_choices, nextQuestionId>>
  /\ UNCHANGED questionCalls
  /\ UNCHANGED <<slugVars, formVars, subVars, workspaceVars, choiceVars>>

\* update questions set parent_id = newParentId where id = questionId; a
\* parent that is gone by now violates the foreign key, a question that is
\* gone matches no row
MoveUpdate(c) ==
  /\ qcall[c].pc = "update"
  /\ LET id == qcall[c].questionId
         p  == qcall[c].newParentId
     IN  IF ~HasQuestion(questions, id)
         THEN /\ qcall' = [qcall EXCEPT ![c] = QuestionAnswered("moveQuestion", 0, "ok")]
              /\ UNCHANGED questions
         ELSE IF p # Null /\ ~HasQuestion(questions, p)
         THEN /\ qcall' = [qcall EXCEPT ![c] = QuestionAnswered("moveQuestion", 0, "error")]
              /\ UNCHANGED questions
         ELSE /\ questions' = (questions \ {QuestionRow(questions, id)}) \cup
                   {[QuestionRow(questions, id) EXCEPT
                       !.parent_id = p,
                       !.path = update_question_path(questions, id, p)]}
              /\ qcall' = [qcall EXCEPT ![c] = QuestionAnswered("moveQuestion", 0, "ok")]
  /\ UNCHANGED <<question_choices, nextQuestionId>>
  /\ UNCHANGED questionCalls
  /\ UNCHANGED <<slugVars, formVars, subVars, workspaceVars, choiceVars>>

\* the items {id, parentId} of a reorder request; the order field of an item
\* is never read
\* the questions a request lists, and the parents it names: the root and
\* the first question
ReorderIds == {1, 2}
ReorderParents == {Null, 1}
ReorderItems == [id : ReorderIds, parentId : ReorderParents]
RECURSIVE ListsUpTo(_, _)
ListsUpTo(S, n) ==
  IF n = 0 THEN {<<>>}
  ELSE LET shorter == ListsUpTo(S, n - 1)
       IN  shorter \cup {Append(l, x) : l \in shorter, x \in S}
ReorderLists == ListsUpTo(ReorderItems, MaxReorder)

\* updatesByParent[key]: the items of one parent, in the order of the request
GroupOf(questionOrder, parentId) ==
  LET InGroup(item) == item.parentId = parentId
  IN  SelectSeq(questionOrder, InGroup)

\* items.map((item, index) => ({id, parent_id, order: index + 1}))
GroupUpdates(questionOrder, parentId) ==
  LET items == GroupOf(questionOrder, parentId)
  IN  [index \in 1..Len(items) |->
         [id |-> items[index].id, parent_id |-> parentId, order |-> index]]

\* Object.entries(updatesByParent) without root: the parents in the order
\* of their first item
RECURSIVE ParentKeys(_, _)
ParentKeys(questionOrder, seen) ==
  IF questionOrder = <<>> THEN <<>>
  ELSE LET p == Head(questionOrder).parentId
       IN  IF p = Null \/ p \in seen
           THEN ParentKeys(Tail(questionOrder), seen)
           ELSE <<p>> \o ParentKeys(Tail(questionOrder), seen \cup {p})

RECURSIVE childUpdates(_, _)
childUpdates(questionOrder, keys) ==
  IF keys = <<>> THEN <<>>
  ELSE GroupUpdates(questionOrder, Head(keys)) \o childUpdates(questionOrder, Tail(keys))

\* updates = [...rootUpdates, ...childUpdates]
reorderUpdates(questionOrder) ==
  GroupUpdates(questionOrder, Null) \o childUpdates(questionOrder, ParentKeys(questionOrder, {}))

\* the row an upsert proposes for insertion: the columns of the payload, the
\* others at their defaults; form_id, type and text have none
ProposedRow(u) ==
  [id |-> u.id, form_id |-> Null, parent_id |-> u.parent_id, order |-> u.order, path |-> <<>>]

\* create table questions: form_id ... not null, "order" integer not null
questions_not_null(row) == row.form_id # Null /\ row.order # Null

\* insert ... on conflict (id) do update, one statement: every proposed row
\* passes the not-null constraints before the conflict on id is looked at, no
\* row is written twice, and parent_id references a row
UpsertRejected(rows, updates) ==
  \/ \E i \in DOMAIN updates : ~questions_not_null(ProposedRow(updates[i]))
  \/ \E i, j \in DOMAIN updates : i # j /\ updates[i].id = updates[j].id
  \/ \E i \in DOMAIN updates : ~HasQuestion(rows, updates[i].id)
  \/ \E i \in DOMAIN updates :
        updates[i].parent_id # Null /\ ~HasQuestion(rows, updates[i].parent_id)

\* do update set parent_id, "order", row after row; the trigger sees the
\* rows already written
RECURSIVE UpsertRows(_, _)
UpsertRows(rows, updates) ==
  IF updates = <<>> THEN rows
  ELSE LET u   == Head(updates)
           old == QuestionRow(rows, u.id)
           new == [old EXCEPT !.parent_id = u.parent_id, !.order = u.order,
                              !.path = update_question_path(rows, u.id, u.parent_id)]
       IN  UpsertRows((rows \ {old}) \cup {new}, Tail(updates))

\* reorderQuestions(formId, questionOrder): the controller answers an empty
\* array itself, the service sends one upsert
ReorderQuestions(c, formId, questionOrder) ==
  /\ QuestionCallIdle(c)
  /\ IF questionOrder = <<>>
     THEN /\ qcall' = [qcall EXCEPT ![c] = QuestionAnswered("reorderQuestions", 0, "bad_request")]
          /\ UNCHANGED questions
     ELSE IF UpsertRejected(questions, reorderUpdates(questionOrder))
     THEN /\ qcall' = [qcall EXCEPT ![c] = QuestionAnswered("reorderQuestions", 0, "error")]
          /\ UNCHANGED questions
     ELSE /\ questions' = UpsertRows(questions, reorderUpdates(questionOrder))
          /\ qcall' = [qcall EXCEPT ![c] = QuestionAnswered("reorderQuestions", 0, "ok")]
  /\ UNCHANGED <<question_choices, nextQuestionId>>
  /\ questionCalls' = questionCalls + 1
  /\ UNCHANGED <<slugVars, formVars, subVars, workspaceVars, choiceVars>>

NextQuestion ==
  \/ \E c \in Callers, f \in FormIds : CreateQuestionRequest(c, f, 0)
  \/ \E c \in Callers : CreateSelectMaxOrder(c)
  \/ \E c \in Callers : CreateInsertQuestion(c)
  \/ \E c \in Callers, q \in QuestionIds : DeleteQuestion(c, q)
  \/ \E c \in Callers, q \in QuestionIds, p \in {Null} \cup QuestionIds :
        MoveQuestionRequest(c, q, p)
  \/ \E c \in Callers : MoveCheck(c)
  \/ \E c \in Callers : MoveUpdate(c)
  \/ \E c \in Callers, l \in ReorderLists : ReorderQuestions(c, 1, l)

\* deleteForm(formId) is called
DeleteFormRequest(c, formId) ==
  /\ QuestionCallIdle(c)
  /\ qcall' = [qcall EXCEPT ![c] =
       [IdleQuestionCall EXCEPT !.pc = "select", !.op = "deleteForm", !.formId = formId]]
  /\ UNCHANGED <<questions, question_choices, nextQuestionId>>
  /\ questionCalls' = questionCalls + 1
  /\ UNCHANGED <<slugVars, formVars, subVars, workspaceVars, choiceVars>>

\* select id, questions(id, question_choices(id)), form_settings(id) ... single()
DeleteFormSelect(c) ==
  /\ qcall[c].pc = "select"
  /\ IF \E f \in forms : f.id = qcall[c].formId
     THEN qcall' = [qcall EXCEPT
            ![c].pc = "choices",
            ![c].todo = {r.id : r \in QuestionsOfForm(questions, qcall[c].formId)},
            ![c].hasSettings = \E s \in form_settings : s.form_id = qcall[c].formId]
     ELSE qcall' = [qcall EXCEPT ![c] = QuestionAnswered("deleteForm", qcall[c].formId, "error")]
  /\ UNCHANGED <<questions, question_choices, nextQuestionId>>
  /\ UNCHANGED questionCalls
  /\ UNCHANGED <<slugVars, formVars, subVars, workspaceVars, choiceVars>>

\* one iteration of for (const question of form.questions): delete from
\* question_choices where question_id = question.id; the iterations touch
\* disjoint rows, they are taken by ascending id
DeleteFormChoices(c) ==
  /\ qcall[c].pc = "choices"
  /\ qcall[c].todo # {}
  /\ LET id == CHOOSE q \in qcall[c].todo : \A r \in qcall[c].todo : q <= r
     IN  /\ question_choices' = {ch \in question_choices : ch.question_id # id}
         /\ qcall' = [qcall EXCEPT ![c].todo = qcall[c].todo \ {id}]
  /\ UNCHANGED <<questions, nextQuestionId>>
  /\ UNCHANGED questionCalls
  /\ UNCHANGED <<slugVars, formVars, subVars, workspaceVars, choiceVars>>

\* delete from questions where form_id = formId
DeleteFormQuestions(c) ==
  /\ qcall[c].pc = "choices"
  /\ qcall[c].todo = {}
  /\ questions' = DeleteQuestions(questions,
                     {r.id : r \in QuestionsOfForm(questions, qcall[c].formId)})
  /\ question_choices' = question_choices_question_id_fkey(question_choices, questions')
  /\ qcall' = [qcall EXCEPT ![c].pc = IF qcall[c].hasSettings THEN "settings" ELSE "form"]
  /\ UNCHANGED nextQuestionId
  /\ UNCHANGED questionCalls
  /\ UNCHANGED <<slugVars, formVars, subVars, workspaceVars, choiceVars>>

\* delete from form_settings where form_id = formId
DeleteFormSettings(c) ==
  /\ qcall[c].pc = "settings"
  /\ form_settings' = {s \in form_settings : s.form_id # qcall[c].formId}
  /\ qcall' = [qcall EXCEPT ![c].pc = "form"]
  /\ UNCHANGED <<forms, nextFormId, fcall>>
  /\ UNCHANGED <<questions, question_choices, nextQuestionId>>
  /\ UNCHANGED questionCalls
  /\ UNCHANGED <<slugVars, subVars, workspaceVars, choiceVars>>

\* delete from forms where id = formId, with the cascades of the schema
DeleteFormRow(c) ==
  /\ qcall[c].pc = "form"
  /\ forms' = {f \in forms : f.id # qcall[c].formId}
  /\ questions' = questions_form_id_fkey(questions, qcall[c].formId)
  /\ question_choices' = question_choices_question_id_fkey(question_choices, questions')
  /\ form_settings' = form_settings_form_id_fkey(form_settings, qcall[c].formId)
  /\ qcall' = [qcall EXCEPT ![c] = QuestionAnswered("deleteForm", qcall[c].formId, "ok")]
  /\ UNCHANGED <<nextFormId, fcall, nextQuestionId>>
  /\ UNCHANGED questionCalls
  /\ UNCHANGED <<slugVars, subVars, workspaceVars, choiceVars>>

\* one of the four deletions reports an error: if (...Error) throw ...;
\* the catch block rethrows, no later statement of deleteForm runs
DeleteFormStepFailsMutant(c) ==
  /\ qcall[c].pc \in {"choices", "settings", "form"}
  /\ qcall' = [qcall EXCEPT ![c] = QuestionAnswered("deleteForm", qcall[c].formId, "error")]
  /\ forms' = {f \in forms : f.id # qcall[c].formId}
  /\ UNCHANGED <<form_settings, nextFormId, fcall>>
  /\ UNCHANGED <<questions, question_choices, nextQuestionId>>
  /\ UNCHANGED questionCalls
  /\ UNCHANGED <<slugVars, subVars, workspaceVars, choiceVars>>
DeleteFormStepFails(c) ==
  /\ qcall[c].pc \in {"choices", "settings", "form"}
  /\ qcall' = [qcall EXCEPT ![c] = QuestionAnswered("deleteForm", qcall[c].formId, "error")]
  /\ UNCHANGED <<questions, question_choices, nextQuestionId>>
  /\ UNCHANGED questionCalls
  /\ UNCHANGED <<slugVars, formVars, subVars, workspaceVars, choiceVars>>

NextDeleteForm ==
  \/ \E c \in Callers, f \in FormIds, n \in ChoiceCounts : CreateQuestionRequest(c, f, n)
  \/ \E c \in Callers : CreateSelectMaxOrder(c)
  \/ \E c \in Callers : CreateInsertQuestion(c)
  \/ \E c \in Callers : CreateInsertChoices(c)
  \/ \E c \in Callers, f \in FormIds : DeleteFormRequest(c, f)
  \/ \E c \in Callers : DeleteFormSelect(c)
  \/ \E c \in Callers : DeleteFormChoices(c)
  \/ \E c \in Callers : DeleteFormQuestions(c)
  \/ \E c \in Callers : DeleteFormSettings(c)
  \/ \E c \in Callers : DeleteFormRow(c)
  \/ \E c \in Callers : DeleteFormStepFails(c)

\* ------------------------------------------------------------------------
\* SpecWorkspace: the table workspaces with its slug migration,
\* createWorkspace, getWorkspace, and the lookups getFormBySlug, getFormByPath
\* ------------------------------------------------------------------------
Users == {"u1", "u2"}
WorkspaceTypes == {"private", "public"}

\* UPDATE workspaces SET slug = LOWER(REGEXP_REPLACE(REGEXP_REPLACE(name,
\* '[^a-zA-Z0-9\s-]', ''), '\s+', '-')): without the flag g each replaces
\* its first match only
MigrationKept == UpperChars \cup LowerChars \cup DigitChars \cup SpaceChars \cup {"-"}
RECURSIVE RemoveFirstNotIn(_, _)
RemoveFirstNotIn(s, C) ==
  IF s = <<>> THEN <<>>
  ELSE IF Head(s) \notin C THEN Tail(s)
  ELSE <<Head(s)>> \o RemoveFirstNotIn(Tail(s), C)
RECURSIVE ReplaceFirstRun(_, _)
ReplaceFirstRun(s, C) ==
  IF s = <<>> THEN <<>>
  ELSE IF Head(s) \in C THEN <<"-">> \o DropLeading(s, C)
  ELSE <<Head(s)>> \o ReplaceFirstRun(Tail(s), C)
workspaceSlugMigration(name) ==
  MapLower(ReplaceFirstRun(RemoveFirstNotIn(name, MigrationKept), SpaceChars))

\* the workspaces that were created before the slug column was added, and
\* the forms createForm made in them
WorkspaceNameAb == <<"A", "b">>
WorkspaceNameA_b == <<"A", " ", "b">>
WorkspaceNameA1b == <<"A", "1", "b">>
WorkspacePool ==
  {[id |-> 1, name |-> WorkspaceNameAb, type |-> "public", user_id |-> "u1",
    slug |-> workspaceSlugMigration(WorkspaceNameAb)],
   [id |-> 2, name |-> WorkspaceNameA_b, type |-> "private", user_id |-> "u2",
    slug |-> workspaceSlugMigration(WorkspaceNameA_b)],
   [id |-> 3, name |-> WorkspaceNameA1b, type |-> "public", user_id |-> "u2",
    slug |-> workspaceSlugMigration(WorkspaceNameA1b)]}
FormPool ==
  {[id |-> 1, workspace_id |-> 1, name |-> NameFeedback,
    slug |-> _createSlug(NameFeedback), is_private |-> FALSE],
   [id |-> 2, workspace_id |-> 1, name |-> NameFeedback,
    slug |-> NumberedSlug(NameFeedback, 1), is_private |-> TRUE],
   [id |-> 3, workspace_id |-> 2, name |-> NameFeedback,
    slug |-> _createSlug(NameFeedback), is_private |-> FALSE]}
WorkspaceIds == {w.id : w \in WorkspacePool}

\* req.params.workspaceSlug and req.params.formSlug
WorkspaceSlugs == {<<"a", "b">>, <<"a", "-", "b">>, <<"a", "_", "b">>}
FormSlugs == {_createSlug(NameFeedback), NumberedSlug(NameFeedback, 1)}

\* ALTER TABLE workspaces ALTER COLUMN slug SET NOT NULL
workspaces_slug_not_null(row) == "slug" \in DOMAIN row

\* CREATE UNIQUE INDEX workspaces_slug_idx ON workspaces (slug)
workspaces_slug_idx(rows, row) == \E w \in rows : w.slug = row.slug

\* .replace(/-/g, ' ')
ReplaceHyphens(s) == [i \in DOMAIN s |-> IF s[i] = "-" THEN " " ELSE s[i]]

\* .ilike(column, pattern): the whole text, letters without case, _ any one
\* character, % any run of characters
RECURSIVE ilike(_, _)
ilike(text, pattern) ==
  IF pattern = <<>> THEN text = <<>>
  ELSE IF Head(pattern) = "%"
       THEN ilike(text, Tail(pattern)) \/ (text # <<>> /\ ilike(Tail(text), pattern))
  ELSE /\ text # <<>>
       /\ Head(pattern) = "_" \/ toLowerCase(Head(text)) = toLowerCase(Head(pattern))
       /\ ilike(Tail(text), Tail(pattern))

IdleWorkspaceCall ==
  [pc |-> "idle", op |-> "", workspaceSlug |-> <<>>, formSlug |-> <<>>, workspaceId |-> 0,
   name |-> <<>>, status |-> 0, data |-> 0]

WorkspaceCallIdle(c) == wcall[c].pc \in {"idle", "done"}

\* the handler has answered: the HTTP status and the id of the row in the
\* body (0: none) remain; a createWorkspace answer keeps the name it was for
WorkspaceAnswered(op, status, data) ==
  [IdleWorkspaceCall EXCEPT !.pc = "done", !.op = op, !.status = status, !.data = data]

\* POST /api/workspaces: the controller checks name and type, createWorkspace
\* inserts {name, type, user_id}
CreateWorkspace(c, name, type, userId) ==
  /\ WorkspaceCallIdle(c)
  /\ IF name = <<>> \/ (type # "" /\ type \notin WorkspaceTypes)
     THEN /\ wcall' = [wcall EXCEPT ![c] = WorkspaceAnswered("createWorkspace", 400, 0)]
          /\ UNCHANGED workspaces
     ELSE LET id  == CHOOSE i \in 1..(Cardinality(workspaces) + 1) :
                       \A w \in workspaces : w.id # i
              row == [id |-> id, name |-> name,
                      type |-> IF type = "" THEN "private" ELSE type, user_id |-> userId]
          IN  IF ~workspaces_slug_not_null(row) \/ workspaces_slug_idx(workspaces, row)
              THEN /\ wcall' = [wcall EXCEPT ![c] =
                        [WorkspaceAnswered("createWorkspace", 500, 0) EXCEPT !.name = name]]
                   /\ UNCHANGED workspaces
              ELSE /\ workspaces' = workspaces \cup {row}
                   /\ wcall' = [wcall EXCEPT ![c] =
                        [WorkspaceAnswered("createWorkspace", 201, id) EXCEPT !.name = name]]
  /\ UNCHANGED <<slugVars, formVars, subVars, questionVars, choiceVars>>

\* select * ... eq(id, workspaceId).or(user_id.eq.userId,type.eq.public)
VisibleWorkspaces(workspaceId, userId) ==
  {w \in workspaces : w.id = workspaceId /\ (w.user_id = userId \/ w.type = "public")}

\* GET /api/workspaces/:workspaceId: single() gives the row or an error, the
\* service throws the error and the controller answers a thrown error with 500
GetWorkspace(c, workspaceId, userId) ==
  /\ WorkspaceCallIdle(c)
  /\ LET rows == VisibleWorkspaces(workspaceId, userId)
     IN  IF Cardinality(rows) = 1
         THEN wcall' = [wcall EXCEPT ![c] =
                WorkspaceAnswered("getWorkspace", 200, (CHOOSE w \in rows : TRUE).id)]
         ELSE wcall' = [wcall EXCEPT ![c] = WorkspaceAnswered("getWorkspace", 500, 0)]
  /\ UNCHANGED workspaces
  /\ UNCHANGED <<slugVars, formVars, subVars, questionVars, choiceVars>>

\* getFormBySlug(workspaceSlug, formSlug) is called
GetFormBySlugRequest(c, workspaceSlug, formSlug) ==
  /\ WorkspaceCallIdle(c)
  /\ wcall' = [wcall EXCEPT ![c] =
       [IdleWorkspaceCall EXCEPT !.pc = "workspace", !.op = "getFormBySlug",
                                 !.workspaceSlug = workspaceSlug, !.formSlug = formSlug]]
  /\ UNCHANGED workspaces
  /\ UNCHANGED <<slugVars, formVars, subVars, questionVars, choiceVars>>

WorkspacesBySlug(workspaceSlug) == {w \in workspaces : w.slug = workspaceSlug}
FormsBySlug(workspaceId, formSlug) ==
  {f \in forms : f.workspace_id = workspaceId /\ f.slug = formSlug}

\* select id from workspaces ... eq(slug, workspaceSlug).single()
GetFormBySlugWorkspace(c) ==
  /\ wcall[c].pc = "workspace"
  /\ wcall[c].op = "getFormBySlug"
  /\ LET rows == WorkspacesBySlug(wcall[c].workspaceSlug)
     IN  IF Cardinality(rows) = 1
         THEN wcall' = [wcall EXCEPT ![c].pc = "form",
                                     ![c].workspaceId = (CHOOSE w \in rows : TRUE).id]
         ELSE wcall' = [wcall EXCEPT ![c] = WorkspaceAnswered("getFormBySlug", 500, 0)]
  /\ UNCHANGED workspaces
  /\ UNCHANGED <<slugVars, formVars, subVars, questionVars, choiceVars>>

\* select ... from forms ... eq(workspace_id).eq(slug, formSlug).single()
GetFormBySlugForm(c) ==
  /\ wcall[c].pc = "form"
  /\ wcall[c].op = "getFormBySlug"
  /\ LET rows == FormsBySlug(wcall[c].workspaceId, wcall[c].formSlug)
     IN  IF Cardinality(rows) = 1
         THEN wcall' = [wcall EXCEPT ![c] =
                WorkspaceAnswered("getFormBySlug", 200, (CHOOSE f \in rows : TRUE).id)]
         ELSE wcall' = [wcall EXCEPT ![c] = WorkspaceAnswered("getFormBySlug", 500, 0)]
  /\ UNCHANGED workspaces
  /\ UNCHANGED <<slugVars, formVars, subVars, questionVars, choiceVars>>

\* GET /:workspaceSlug/:formSlug, no authentication: getFormByPath(path)
GetFormByPathRequest(c, workspaceSlug, formSlug) ==
  /\ WorkspaceCallIdle(c)
  /\ wcall' = [wcall EXCEPT ![c] =
       [IdleWorkspaceCall EXCEPT !.pc = "workspace", !.op = "getFormByPath",
                                 !.workspaceSlug = workspaceSlug, !.formSlug = formSlug]]
  /\ UNCHANGED workspaces
  /\ UNCHANGED <<slugVars, formVars, subVars, questionVars, choiceVars>>

\* the rows the admin client reads: row level security does not apply to it
WorkspacesByName(workspaceSlug) ==
  {w \in workspaces : ilike(w.name, ReplaceHyphens(workspaceSlug))}
FormsByName(workspaceId, formSlug) ==
  {f \in forms : f.workspace_id = workspaceId /\ ilike(f.name, ReplaceHyphens(formSlug))}

\* select id, name from workspaces ... ilike(name, workspaceName); the call
\* goes on with workspaces[0], and no order is asked for
GetFormByPathWorkspaces(c) ==
  /\ wcall[c].pc = "workspace"
  /\ wcall[c].op = "getFormByPath"
  /\ LET rows == WorkspacesByName(wcall[c].workspaceSlug)
     IN  IF rows = {}
         THEN wcall' = [wcall EXCEPT ![c] = WorkspaceAnswered("getFormByPath", 404, 0)]
         ELSE \E w \in rows :
                wcall' = [wcall EXCEPT ![c].pc = "form", ![c].workspaceId = w.id]
  /\ UNCHANGED workspaces
  /\ UNCHANGED <<slugVars, formVars, subVars, questionVars, choiceVars>>

\* select ... from forms ... eq(workspace_id).ilike(name, ...); the answer
\* is forms[0]
GetFormByPathForms(c) ==
  /\ wcall[c].pc = "form"
  /\ wcall[c].op = "getFormByPath"
  /\ LET rows == FormsByName(wcall[c].workspaceId, wcall[c].formSlug)
     IN  IF rows = {}
         THEN wcall' = [wcall EXCEPT ![c] = WorkspaceAnswered("getFormByPath", 404, 0)]
         ELSE \E f \in rows :
                wcall' = [wcall EXCEPT ![c] = WorkspaceAnswered("getFormByPath", 200, f.id)]
  /\ UNCHANGED workspaces
  /\ UNCHANGED <<slugVars, formVars, subVars, questionVars, choiceVars>>

NextWorkspace ==
  \/ \E c \in Callers, n \in {<<>>, WorkspaceNameAb}, t \in WorkspaceTypes \cup {"", "secret"},
        u \in Users : CreateWorkspace(c, n, t, u)
  \/ \E c \in Callers, w \in WorkspaceIds, u \in Users : GetWorkspace(c, w, u)
  \/ \E c \in Callers, ws \in WorkspaceSlugs, fs \in FormSlugs : GetFormBySlugRequest(c, ws, fs)
  \/ \E c \in Callers : GetFormBySlugWorkspace(c)
  \/ \E c \in Callers : GetFormBySlugForm(c)
  \/ \E c \in Callers, ws \in WorkspaceSlugs, fs \in FormSlugs : GetFormByPathRequest(c, ws, fs)
  \/ \E c \in Callers : GetFormByPathWorkspaces(c)
  \/ \E c \in Callers : GetFormByPathForms(c)

\* ------------------------------------------------------------------------
\* SpecChoice: updateQuestion and reorderQuestionChoices (service layer)
\* ------------------------------------------------------------------------
\* the choices[] arrays of the requests: texts "a" and "b"
ChoiceLists == ListsUpTo({"a", "b"}, MaxChoiceTexts)

\* question 1 has the choices "a" (order 1) and "b" (order 2)
InitialChoices ==
  {[id |-> 1, question_id |-> 1, text |-> "a", order |-> 1],
   [id |-> 2, question_id |-> 1, text |-> "b", order |-> 2]}

ChoicesOfQuestion(rows, questionId) == {ch \in rows : ch.question_id = questionId}

IdleChoiceCall ==
  [pc |-> "idle", op |-> "", questionId |-> 0, provided |-> FALSE, choices |-> <<>>,
   result |-> ""]

\* the caller is free to issue its next call
ChoiceCallIdle(c) == ccall[c].pc \in {"idle", "done"} /\ choiceCalls < MaxChoiceCalls

\* the call has returned or thrown: its locals are gone
ChoiceAnswered(op, result) ==
  [IdleChoiceCall EXCEPT !.pc = "done", !.op = op, !.result = result]

\* updateQuestion(questionId, {text, ..., choices}); provided = FALSE is a
\* body without choices
UpdateQuestionRequest(c, questionId, provided, choices) ==
  /\ ChoiceCallIdle(c)
  /\ provided \/ choices = <<>>
  /\ ccall' = [ccall EXCEPT ![c] =
       [IdleChoiceCall EXCEPT !.pc = "update", !.op = "updateQuestion",
                              !.questionId = questionId, !.provided = provided,
                              !.choices = choices]]
  /\ choiceCalls' = choiceCalls + 1
  /\ UNCHANGED nextChoiceId
  /\ UNCHANGED <<slugVars, formVars, subVars, questionVars, workspaceVars>>

\* update questions set text, ... where id = questionId ... single(); the
\* model's question rows carry none of the written columns
UpdateQuestionRow(c) ==
  /\ ccall[c].pc = "update"
  /\ IF ~HasQuestion(questions, ccall[c].questionId)
     THEN ccall' = [ccall EXCEPT ![c] = ChoiceAnswered("updateQuestion", "error")]
     ELSE IF ccall[c].provided
     THEN ccall' = [ccall EXCEPT ![c].pc = "delete_choices"]
     ELSE ccall' = [ccall EXCEPT ![c] = ChoiceAnswered("updateQuestion", "ok")]
  /\ UNCHANGED <<nextChoiceId, choiceCalls>>
  /\ UNCHANGED <<slugVars, formVars, subVars, questionVars, workspaceVars>>

\* await ... delete from question_choices where question_id = questionId; the
\* result is not looked at: ok = FALSE is a datastore error on that delete
UpdateDeleteChoices(c, ok) ==
  /\ ccall[c].pc = "delete_choices"
  /\ question_choices' =
       IF ok THEN question_choices \ ChoicesOfQuestion(question_choices, ccall[c].questionId)
       ELSE question_choices
  /\ IF Len(ccall[c].choices) > 0
     THEN ccall' = [ccall EXCEPT ![c].pc = "insert_choices"]
     ELSE ccall' = [ccall EXCEPT ![c] = ChoiceAnswered("updateQuestion", "ok")]
  /\ UNCHANGED <<nextChoiceId, choiceCalls>>
  /\ UNCHANGED <<questions, nextQuestionId, qcall, questionCalls>>
  /\ UNCHANGED <<slugVars, formVars, subVars, workspaceVars>>

\* choices.map((text, index) => ({question_id, text, order: index + 1})),
\* with the primary keys the insert hands out
choicesData(questionId, choices, firstId) ==
  {[id |-> firstId + index - 1, question_id |-> questionId, text |-> choices[index],
    order |-> index] : index \in 1..Len(choices)}

\* insert into question_choices; ok = FALSE is a datastore error on that insert
UpdateInsertChoices(c, ok) ==
  /\ ccall[c].pc = "insert_choices"
  /\ IF ok /\ HasQuestion(questions, ccall[c].questionId)
     THEN /\ question_choices' = question_choices \cup
               choicesData(ccall[c].questionId, ccall[c].choices, nextChoiceId)
          /\ nextChoiceId' = nextChoiceId + Len(ccall[c].choices)
          /\ ccall' = [ccall EXCEPT ![c] = ChoiceAnswered("updateQuestion", "ok")]
     ELSE /\ ccall' = [ccall EXCEPT ![c] = ChoiceAnswered("updateQuestion", "error")]
          /\ UNCHANGED <<question_choices, nextChoiceId>>
  /\ UNCHANGED choiceCalls
  /\ UNCHANGED <<questions, nextQuestionId, qcall, questionCalls>>
  /\ UNCHANGED <<slugVars, formVars, subVars, workspaceVars>>

\* the choiceIds[] arrays of the requests: the ids of the two initial choices
ReorderChoiceLists == ListsUpTo({1, 2}, MaxReorder)

\* choiceIds.map((id, index) => ({id, order: index + 1}))
choiceOrderUpdates(choiceIds) ==
  [index \in 1..Len(choiceIds) |-> [id |-> choiceIds[index], order |-> index]]

\* create table question_choices: question_id, text and "order" are not null
\* and have no default
question_choices_not_null(row) == {"question_id", "text", "order"} \subseteq DOMAIN row

\* insert ... on conflict (id) do update, one statement: the proposed rows
\* are the payload itself and must pass the not-null constraints before the
\* conflict on id is looked at; no row is written twice
ChoiceUpsertRejected(updates) ==
  \/ \E i \in DOMAIN updates : ~question_choices_not_null(updates[i])
  \/ \E i, j \in DOMAIN updates : i # j /\ updates[i].id = updates[j].id

\* do update set "order" on the rows whose id is in the payload
ChoiceUpsertRows(rows, updates) ==
  {IF \E i \in DOMAIN updates : updates[i].id = ch.id
   THEN [ch EXCEPT !.order = updates[CHOOSE i \in DOMAIN updates : updates[i].id = ch.id].order]
   ELSE ch : ch \in rows}

\* reorderQuestionChoices(questionId, choiceIds): the controller answers an
\* empty array itself, the service sends one upsert
ReorderQuestionChoices(c, questionId, choiceIds) ==
  /\ ChoiceCallIdle(c)
  /\ IF choiceIds = <<>>
     THEN /\ ccall' = [ccall EXCEPT ![c] = ChoiceAnswered("reorderQuestionChoices", "bad_request")]
          /\ UNCHANGED question_choices
     ELSE IF ChoiceUpsertRejected(choiceOrderUpdates(choiceIds))
     THEN /\ ccall' = [ccall EXCEPT ![c] = ChoiceAnswered("reorderQuestionChoices", "error")]
          /\ UNCHANGED question_choices
     ELSE /\ question_choices' = ChoiceUpsertRows(question_choices, choiceOrderUpdates(choiceIds))
          /\ ccall' = [ccall EXCEPT ![c] = ChoiceAnswered("reorderQuestionChoices", "ok")]
  /\ choiceCalls' = choiceCalls + 1
  /\ UNCHANGED nextChoiceId
  /\ UNCHANGED <<questions, nextQuestionId, qcall, questionCalls>>
  /\ UNCHANGED <<slugVars, formVars, subVars, workspaceVars>>

NextChoice ==
  \/ \E c \in Callers, q \in {1, 3}, provided \in BOOLEAN, l \in ChoiceLists :
        UpdateQuestionRequest(c, q, provided, l)
  \/ \E c \in Callers : UpdateQuestionRow(c)
  \/ \E c \in Callers, ok \in BOOLEAN : UpdateDeleteChoices(c, ok)
  \/ \E c \in Callers, ok \in BOOLEAN : UpdateInsertChoices(c, ok)
  \/ \E c \in Callers, l \in ReorderChoiceLists : ReorderQuestionChoices(c, 1, l)

\* ------------------------------------------------------------------------
\* Specifications
\* ------------------------------------------------------------------------
\* no request has arrived and every table is empty; SpecSlug draws the argument
InitSlug ==
  /\ slugPc = "input"
  /\ slugIn \in StringsUpTo(MaxLen)
  /\ slugOut = <<>>
  /\ forms = {}
  /\ form_settings = {}
  /\ nextFormId = 1
  /\ fcall = [c \in Callers |-> IdleFormCall]
  /\ form_submissions = {}
  /\ question_responses = EmptyBag
  /\ form_analytics = [f \in SubmissionForms |-> NoRow]
  /\ nextSubmissionId = 1
  /\ clock = 1
  /\ scall = [c \in Callers |-> IdleSubmissionCall]
  /\ callsMade = 0
  /\ returned = {}
  /\ completeThrew = FALSE
  /\ questions = {}
  /\ question_choices = {}
  /\ nextQuestionId = 1
  /\ qcall = [c \in Callers |-> IdleQuestionCall]
  /\ questionCalls = 0
  /\ workspaces = {}
  /\ wcall = [c \in Callers |-> IdleWorkspaceCall]
  /\ nextChoiceId = 1
  /\ ccall = [c \in Callers |-> IdleChoiceCall]
  /\ choiceCalls = 0

InitForm ==
  /\ slugPc = "idle"
  /\ slugIn = <<>>
  /\ slugOut = <<>>
  /\ forms = {}
  /\ form_settings = {}
  /\ nextFormId = 1
  /\ fcall = [c \in Callers |-> IdleFormCall]
  /\ form_submissions = {}
  /\ question_responses = EmptyBag
  /\ form_analytics = [f \in SubmissionForms |-> NoRow]
  /\ nextSubmissionId = 1
  /\ clock = 1
  /\ scall = [c \in Callers |-> IdleSubmissionCall]
  /\ callsMade = 0
  /\ returned = {}
  /\ completeThrew = FALSE
  /\ questions = {}
  /\ question_choices = {}
  /\ nextQuestionId = 1
  /\ qcall = [c \in Callers |-> IdleQuestionCall]
  /\ questionCalls = 0
  /\ workspaces = {}
  /\ wcall = [c \in Callers |-> IdleWorkspaceCall]
  /\ nextChoiceId = 1
  /\ ccall = [c \in Callers |-> IdleChoiceCall]
  /\ choiceCalls = 0

InitSubmission ==
  /\ slugPc = "idle"
  /\ slugIn = <<>>
  /\ slugOut = <<>>
  /\ forms = {}
  /\ form_settings = {}
  /\ nextFormId = 1
  /\ fcall = [c \in Callers |-> IdleFormCall]
  /\ form_submissions = {}
  /\ question_responses = EmptyBag
  /\ form_analytics = [f \in SubmissionForms |-> NoRow]
  /\ nextSubmissionId = 1
  /\ clock = 1
  /\ scall = [c \in Callers |-> IdleSubmissionCall]
  /\ callsMade = 0
  /\ returned = {}
  /\ completeThrew = FALSE
  /\ questions = {}
  /\ question_choices = {}
  /\ nextQuestionId = 1
  /\ qcall = [c \in Callers |-> IdleQuestionCall]
  /\ questionCalls = 0
  /\ workspaces = {}
  /\ wcall = [c \in Callers |-> IdleWorkspaceCall]
  /\ nextChoiceId = 1
  /\ ccall = [c \in Callers |-> IdleChoiceCall]
  /\ choiceCalls = 0

\* two forms exist; the first one has two questions
InitQuestion ==
  /\ slugPc = "idle"
  /\ slugIn = <<>>
  /\ slugOut = <<>>
  /\ forms = InitialForms
  /\ form_settings = InitialSettings
  /\ nextFormId = Cardinality(InitialForms) + 1
  /\ fcall = [c \in Callers |-> IdleFormCall]
  /\ form_submissions = {}
  /\ question_responses = EmptyBag
  /\ form_analytics = [f \in SubmissionForms |-> NoRow]
  /\ nextSubmissionId = 1
  /\ clock = 1
  /\ scall = [c \in Callers |-> IdleSubmissionCall]
  /\ callsMade = 0
  /\ returned = {}
  /\ completeThrew = FALSE
  /\ questions = InitialQuestions
  /\ question_choices = {}
  /\ nextQuestionId = Cardinality(InitialQuestions) + 1
  /\ qcall = [c \in Callers |-> IdleQuestionCall]
  /\ questionCalls = 0
  /\ workspaces = {}
  /\ wcall = [c \in Callers |-> IdleWorkspaceCall]
  /\ nextChoiceId = 1
  /\ ccall = [c \in Callers |-> IdleChoiceCall]
  /\ choiceCalls = 0

\* two forms exist, no question has been created
InitDeleteForm ==
  /\ slugPc = "idle"
  /\ slugIn = <<>>
  /\ slugOut = <<>>
  /\ forms = InitialForms
  /\ form_settings = InitialSettings
  /\ nextFormId = Cardinality(InitialForms) + 1
  /\ fcall = [c \in Callers |-> IdleFormCall]
  /\ form_submissions = {}
  /\ question_responses = EmptyBag
  /\ form_analytics = [f \in SubmissionForms |-> NoRow]
  /\ nextSubmissionId = 1
  /\ clock = 1
  /\ scall = [c \in Callers |-> IdleSubmissionCall]
  /\ callsMade = 0
  /\ returned = {}
  /\ completeThrew = FALSE
  /\ questions = {}
  /\ question_choices = {}
  /\ nextQuestionId = 1
  /\ qcall = [c \in Callers |-> IdleQuestionCall]
  /\ questionCalls = 0
  /\ workspaces = {}
  /\ wcall = [c \in Callers |-> IdleWorkspaceCall]
  /\ nextChoiceId = 1
  /\ ccall = [c \in Callers |-> IdleChoiceCall]
  /\ choiceCalls = 0

\* workspaces from before the slug migration and forms of theirs exist
InitWorkspace ==
  /\ workspaces \in SUBSET WorkspacePool
  /\ slugPc = "idle"
  /\ slugIn = <<>>
  /\ slugOut = <<>>
  /\ forms \in {rows \in SUBSET FormPool :
               \A f \in rows : \E w \in workspaces : w.id = f.workspace_id}
  /\ form_settings = {[form_id |-> f.id] : f \in forms}
  /\ nextFormId = Cardinality(FormPool) + 1
  /\ fcall = [c \in Callers |-> IdleFormCall]
  /\ form_submissions = {}
  /\ question_responses = EmptyBag
  /\ form_analytics = [f \in SubmissionForms |-> NoRow]
  /\ nextSubmissionId = 1
  /\ clock = 1
  /\ scall = [c \in Callers |-> IdleSubmissionCall]
  /\ callsMade = 0
  /\ returned = {}
  /\ completeThrew = FALSE
  /\ questions = {}
  /\ question_choices = {}
  /\ nextQuestionId = 1
  /\ qcall = [c \in Callers |-> IdleQuestionCall]
  /\ questionCalls = 0
  /\ wcall = [c \in Callers |-> IdleWorkspaceCall]
  /\ nextChoiceId = 1
  /\ ccall = [c \in Callers |-> IdleChoiceCall]
  /\ choiceCalls = 0

SpecSlug == InitSlug /\ [][NextSlug]_vars

SpecForm == InitForm /\ [][NextForm]_vars

SpecSubmission == InitSubmission /\ [][NextSubmission]_vars

SpecQuestion == InitQuestion /\ [][NextQuestion]_vars

SpecDeleteForm == InitDeleteForm /\ [][NextDeleteForm]_vars

SpecWorkspace == InitWorkspace /\ [][NextWorkspace]_vars

\* forms 1 and 2, questions 1 and 2 of form 1, question 1 with two choices
InitChoice ==
  /\ slugPc = "idle"
  /\ slugIn = <<>>
  /\ slugOut = <<>>
  /\ forms = InitialForms
  /\ form_settings = InitialSettings
  /\ nextFormId = Cardinality(InitialForms) + 1
  /\ fcall = [c \in Callers |-> IdleFormCall]
  /\ form_submissions = {}
  /\ question_responses = EmptyBag
  /\ form_analytics = [f \in SubmissionForms |-> NoRow]
  /\ nextSubmissionId = 1
  /\ clock = 1
  /\ scall = [c \in Callers |-> IdleSubmissionCall]
  /\ callsMade = 0
  /\ returned = {}
  /\ completeThrew = FALSE
  /\ questions = InitialQuestions
  /\ question_choices = InitialChoices
  /\ nextQuestionId = Cardinality(InitialQuestions) + 1
  /\ qcall = [c \in Callers |-> IdleQuestionCall]
  /\ questionCalls = 0
  /\ workspaces = {}
  /\ wcall = [c \in Callers |-> IdleWorkspaceCall]
  /\ nextChoiceId = Cardinality(InitialChoices) + 1
  /\ ccall = [c \in Callers |-> IdleChoiceCall]
  /\ choiceCalls = 0

SpecChoice == InitChoice /\ [][NextChoice]_vars

\* ------------------------------------------------------------------------
\* Properties of createForm (SpecForm)
\* ------------------------------------------------------------------------
SlugTaken(rows, workspaceId, slug) ==
  \E f \in rows : f.workspace_id = workspaceId /\ f.slug = slug

\* the slug the contract asks for: the base when it is free in the workspace,
\* otherwise base-k for the smallest k >= 1 that is free
ExpectedSlug(rows, workspaceId, name) ==
  LET base == _createSlug(name)
      numbered(k) == base \o <<"-">> \o Decimal(k)
  IN  IF ~SlugTaken(rows, workspaceId, base) THEN base
      ELSE numbered(CHOOSE k \in 1..(Cardinality(rows) + 1) :
                      /\ ~SlugTaken(rows, workspaceId, numbered(k))
                      /\ \A j \in 1..(k - 1) : SlugTaken(rows, workspaceId, numbered(j)))

\* C8: whenever createForm inserts its form row, the workspace gains exactly
\* that one row, and its slug is slugify(name) when no form of the workspace
\* has that slug, otherwise slugify(name)-k for the smallest k >= 1 that no
\* form of the workspace has.
C8_SmallestFreeSlug ==
  [][\A c \in Callers :
       (fcall[c].pc = "probing" /\ fcall'[c].pc = "settings") =>
         forms' = forms \cup
           {[id |-> nextFormId, workspace_id |-> fcall[c].workspaceId,
             name |-> fcall[c].name,
             slug |-> ExpectedSlug(forms, fcall[c].workspaceId, fcall[c].name)]}]_vars

\* two successive forms named "Feedback" in one workspace: feedback, feedback-1
C8_Witness ==
  \E f \in forms, g \in forms :
    /\ f.workspace_id = g.workspace_id /\ f.id < g.id
    /\ f.name = NameFeedback /\ g.name = NameFeedback
    /\ f.slug = <<"f", "e", "e", "d", "b", "a", "c", "k">>
    /\ g.slug = <<"f", "e", "e", "d", "b", "a", "c", "k", "-", "1">>

\* C9: in every reachable state no two form rows of one workspace have the
\* same slug, also when createForm calls with the same name overlap.
C9_UniqueSlugPerWorkspace ==
  \A f \in forms, g \in forms :
    (f.workspace_id = g.workspace_id /\ f.slug = g.slug) => f = g

\* two overlapping calls both saw the slug free; the second insert was rejected
C9_Witness ==
  \E c \in Callers : fcall[c].pc = "done" /\ fcall[c].error = "unique_violation"

\* ------------------------------------------------------------------------
\* Properties of _createSlug (SpecSlug)
\* ------------------------------------------------------------------------
RECURSIVE KeepOnly(_, _)
KeepOnly(s, C) ==
  IF s = <<>> THEN <<>>
  ELSE (IF Head(s) \in C THEN <<Head(s)>> ELSE <<>>) \o KeepOnly(Tail(s), C)

\* position by position: a separator that starts a run becomes "-", a
\* separator inside a run vanishes
RECURSIVE CollapseFrom(_, _, _)
CollapseFrom(s, i, Sep) ==
  IF i > Len(s) THEN <<>>
  ELSE (IF s[i] \notin Sep THEN <<s[i]>>
        ELSE IF i > 1 /\ s[i - 1] \in Sep THEN <<>> ELSE <<"-">>)
       \o CollapseFrom(s, i + 1, Sep)

StripHyphens(s) ==
  LET inner == {i \in 1..Len(s) : s[i] # "-"}
  IN  IF inner = {} THEN <<>>
      ELSE SubSeq(s, CHOOSE i \in inner : \A j \in inner : i <= j,
                     CHOOSE i \in inner : \A j \in inner : i >= j)

\* lower-case, keep only the characters of Keep, replace each run of
\* characters of Sep by one hyphen, strip leading and trailing hyphens
ReferencePipeline(x, Keep, Sep) ==
  StripHyphens(CollapseFrom(KeepOnly([i \in 1..Len(x) |-> toLowerCase(x[i])], Keep), 1, Sep))

AlnumChars == LowerChars \cup DigitChars
ExampleInput == <<"Q", "1", " ", "S", "u", "r", "v", "e", "y", "!", "!">>
ExampleSlug == <<"q", "1", "-", "s", "u", "r", "v", "e", "y">>

\* C10 as stated: slugify(x) is the pipeline that keeps [a-z0-9, whitespace,
\* hyphen] and replaces runs of whitespace/underscore.
C10_Original ==
  slugPc = "done" =>
    slugOut = ReferencePipeline(slugIn, AlnumChars \cup SpaceChars \cup {"-"},
                                SpaceChars \cup {"_"})

\* C10 amended: slugify(x) is the pipeline that keeps [a-z0-9_, whitespace,
\* hyphen] and replaces each run of whitespace/underscore/hyphen characters by
\* one hyphen; slugify("Q1 Survey!!") = "q1-survey".
C10_SlugPipeline ==
  /\ slugPc = "done" =>
       slugOut = ReferencePipeline(slugIn, AlnumChars \cup SpaceChars \cup {"_", "-"},
                                   SpaceChars \cup {"_", "-"})
  /\ _createSlug(ExampleInput) = ExampleSlug

\* an underscore between two letters comes out as a hyphen
C10_Witness ==
  slugPc = "done" /\ slugIn = <<"b", "_", "b">> /\ slugOut = <<"b", "-", "b">>

\* ------------------------------------------------------------------------
\* Properties of the submission state machine (SpecSubmission)
\* ------------------------------------------------------------------------
\* caller c takes a step of its own request
StepOf(c) == scall'[c] # scall[c]

RowsOf(formId, email, status) ==
  {r \in form_submissions : r.form_id = formId /\ r.email = email /\ r.status = status}

C3_OneRowPerFormEmail ==
  \A r \in form_submissions, q \in form_submissions :
    (r.form_id = q.form_id /\ r.email = q.email) => r = q

\* two overlapping start calls both found no row; the second insert was rejected
C3_Witness ==
  \E c \in Callers :
    scall[c].pc = "done" /\ scall[c].op = "start" /\ scall[c].status = 500

\* C4 as stated: a submission row only ever appears as in_progress, and a row
\* that is completed is never modified again.
C4_Original ==
  [][/\ \A r \in form_submissions : r.status = "completed" => r \in form_submissions'
     /\ \A r \in form_submissions' :
          r.status = "in_progress" =>
            (r \in form_submissions \/ \A q \in form_submissions : q.id # r.id)]_vars

\* C5 as stated: when completeSubmission returns success, the row
\* submissionId is completed with completion_time = completionTime and has
\* exactly one response row per entry of responses.
C5_Original ==
  [][\A c \in Callers :
       (scall[c].pc = "analytics_upsert" /\ scall'[c].pc = "done") =>
         /\ \E r \in form_submissions' :
              /\ r.id = scall[c].submissionId
              /\ r.status = "completed"
              /\ r.completion_time = scall[c].completionTime
         /\ \A row \in BagToSet(question_responses') :
              row.submission_id = scall[c].submissionId =>
                CopiesIn(row, question_responses')
                  = CopiesIn(row, formattedResponses(scall[c].submissionId, scall[c].responses))]_vars

\* C6 as stated: a start request for a (form, email) pair that has a
\* completed submission is answered with status 409.
C6_Original ==
  [][\A c \in Callers :
       (scall[c].pc = "start_check" /\ StepOf(c)
        /\ RowsOf(scall[c].formId, scall[c].email, "completed") # {}) =>
         scall'[c].status = 409]_vars

\* C7 as stated: once every completeSubmission call has returned, the
\* analytics row of a form with N >= 1 completed submissions has
\* total_submissions = N.
C7_Original ==
  \A f \in SubmissionForms :
    (/\ \A c \in Callers : scall[c].op = "complete" => scall[c].pc = "done"
     /\ ~completeThrew
     /\ CompletedSubmissions(f) # {}) =>
      /\ form_analytics[f].exists
      /\ form_analytics[f].total_submissions = Cardinality(CompletedSubmissions(f))

\* ------------------------------------------------------------------------
\* C11: slugifying a slug changes nothing: for every input x,
\* _createSlug(_createSlug(x)) = _createSlug(x)
\* ------------------------------------------------------------------------
C11_Idempotent ==
  slugPc = "done" => _createSlug(slugOut) = slugOut

\* a call whose input was changed by every stage of the pipeline: it had
\* characters to drop and separators to collapse, and a slug came out of it
C11_Witness ==
  /\ slugPc = "done"
  /\ slugOut # <<>>
  /\ slugOut # slugIn
  /\ Len(slugOut) >= 3
  /\ \E i \in 1..Len(slugOut) : slugOut[i] = "-"

\* ------------------------------------------------------------------------
\* Properties of deleteForm (SpecDeleteForm)
\* ------------------------------------------------------------------------
DeletedForms == {qcall[c].formId : c \in {d \in Callers :
                   qcall[d].pc = "done" /\ qcall[d].op = "deleteForm" /\ qcall[d].result = "ok"}}

\* C12: once deleteForm(formId) has returned success, the forms row is gone
\* and no questions, question_choices or form_settings row of that form
\* exists, whatever createQuestion calls ran beside the deletion
C12_DeleteFormLeavesNothing ==
  \A f \in DeletedForms :
    /\ ~\E r \in forms : r.id = f
    /\ QuestionsOfForm(questions, f) = {}
    /\ ~\E s \in form_settings : s.form_id = f
    /\ \A ch \in question_choices :
         /\ HasQuestion(questions, ch.question_id)
         /\ QuestionRow(questions, ch.question_id).form_id # f

\* deleteForm has returned while a createQuestion call for the same form,
\* which inserted its question during the deletion, has its choices insert
\* still to come
C12_Witness ==
  \E c, d \in Callers :
    /\ qcall[c].pc = "done" /\ qcall[c].op = "deleteForm" /\ qcall[c].result = "ok"
    /\ qcall[d].pc = "choices"
    /\ ~HasQuestion(questions, qcall[d].questionId)
    /\ \E r \in questions : r.form_id # qcall[c].formId

\* ------------------------------------------------------------------------
\* Properties of the question hierarchy (SpecQuestion)
\* ------------------------------------------------------------------------
QuestionStepOf(c) == qcall'[c] # qcall[c]

\* a request that lists existing questions, each once, under existing parents
ListsExistingQuestions(l) ==
  /\ l # <<>>
  /\ \A i \in DOMAIN l : HasQuestion(questions, l[i].id)
  /\ \A i, j \in DOMAIN l : i # j => l[i].id # l[j].id
  /\ \A i \in DOMAIN l : l[i].parentId # Null =>
        HasQuestion(questions, l[i].parentId) /\ l[i].parentId # l[i].id

\* the place of item i among the items of the request that name its parent
PlaceInGroup(l, i) == Cardinality({j \in 1..i : l[j].parentId = l[i].parentId})

\* C13: after reorderQuestions with the list l, every listed question has the
\* parent its item names and, within the items of that parent, the order
\* 1, 2, ... of its place in the request
C13_Original ==
  [][\A c \in Callers, l \in ReorderLists :
       (ListsExistingQuestions(l) /\ ReorderQuestions(c, 1, l)) =>
         \A i \in DOMAIN l :
           /\ HasQuestion(questions', l[i].id)
           /\ QuestionRow(questions', l[i].id).parent_id = l[i].parentId
           /\ QuestionRow(questions', l[i].id).order = PlaceInGroup(l, i)]_vars

SiblingGroup(formId, parentId) ==
  {r \in questions : r.form_id = formId /\ r.parent_id = parentId}

\* C14: in every state the orders of the questions of one form under one
\* parent (or at the root) are pairwise distinct and are exactly 1..n
C14_Original ==
  \A f \in FormIds, p \in {Null} \cup QuestionIds :
    /\ {r.order : r \in SiblingGroup(f, p)} = 1..Cardinality(SiblingGroup(f, p))
    /\ \A a, b \in SiblingGroup(f, p) : a.order = b.order => a = b

\* C15: in every state the path of a question is its own id when it has no
\* parent, and otherwise the path its parent has now, followed by its own id
C15_Original ==
  \A r \in questions :
    r.path = IF r.parent_id = Null THEN <<r.id>>
             ELSE IF HasQuestion(questions, r.parent_id)
                  THEN QuestionRow(questions, r.parent_id).path \o <<r.id>>
                  ELSE <<>>

\* both questions exist and belong to one form
BothInOneForm(questionId, newParentId) ==
  /\ HasQuestion(questions, questionId)
  /\ HasQuestion(questions, newParentId)
  /\ QuestionRow(questions, questionId).form_id = QuestionRow(questions, newParentId).form_id

\* C16: a moveQuestion call with a parent writes a questions row only when
\* the question and the parent exist in one form; when its verification finds
\* otherwise it raises an error, and a call that raises leaves every row as
\* it was
C16_MoveOnlyWithinForm ==
  [][\A c \in Callers :
       (/\ QuestionStepOf(c)
        /\ qcall[c].op = "moveQuestion"
        /\ qcall[c].pc \in {"check", "update"}
        /\ qcall[c].newParentId # Null) =>
         /\ questions' # questions =>
              BothInOneForm(qcall[c].questionId, qcall[c].newParentId)
         /\ (qcall[c].pc = "check" /\
             ~BothInOneForm(qcall[c].questionId, qcall[c].newParentId)) =>
              qcall'[c].pc = "done" /\ qcall'[c].result = "error"
         /\ qcall'[c].result = "error" => questions' = questions]_vars

\* one moveQuestion call has put a question under a parent, another one has
\* raised its error, and a question of the second form exists
C16_Witness ==
  \E c, d \in Callers :
    /\ qcall[c].pc = "done" /\ qcall[c].op = "moveQuestion" /\ qcall[c].result = "error"
    /\ qcall[d].pc = "done" /\ qcall[d].op = "moveQuestion" /\ qcall[d].result = "ok"
    /\ \E r \in questions : r.parent_id # Null
    /\ \E r \in questions : r.form_id = 2

\* ------------------------------------------------------------------------
\* Properties of the workspace handlers and the lookups (SpecWorkspace)
\* ------------------------------------------------------------------------
WorkspaceStepOf(c) == wcall'[c] # wcall[c]

\* C17: GET /api/workspaces/:workspaceId answers with the workspace when the
\* user owns it or it is public, and with 404 and no workspace when it is
\* absent or another user's private workspace
C17_Original ==
  [][\A c \in Callers, w \in WorkspaceIds, u \in Users :
       GetWorkspace(c, w, u) =>
         IF \E r \in workspaces : r.id = w /\ (r.user_id = u \/ r.type = "public")
         THEN wcall'[c].status = 200 /\ wcall'[c].data = w
         ELSE wcall'[c].status = 404 /\ wcall'[c].data = 0]_vars

\* C18: a request on the public path is never answered with a form whose
\* is_private flag is set, nor with a form of a private workspace
C18_Original ==
  \A c \in Callers :
    (wcall[c].pc = "done" /\ wcall[c].op = "getFormByPath" /\ wcall[c].status = 200) =>
      \A f \in forms : f.id = wcall[c].data =>
        /\ ~f.is_private
        /\ \A w \in workspaces : w.id = f.workspace_id => w.type = "public"

\* C19: a createWorkspace request with a name and a valid type is answered
\* with a persisted row that has a slug, distinct from every other slug
C19_Original ==
  \A c \in Callers :
    (wcall[c].pc = "done" /\ wcall[c].op = "createWorkspace" /\ wcall[c].status # 400) =>
      /\ wcall[c].status = 201
      /\ \E w \in workspaces :
           /\ w.id = wcall[c].data
           /\ w.name = wcall[c].name
           /\ workspaces_slug_not_null(w)
           /\ \A v \in workspaces \ {w} : v.slug # w.slug

WorkspaceMatches(k) ==
  IF k.op = "getFormBySlug" THEN WorkspacesBySlug(k.workspaceSlug)
  ELSE WorkspacesByName(k.workspaceSlug)
FormMatches(k) ==
  IF k.op = "getFormBySlug" THEN FormsBySlug(k.workspaceId, k.formSlug)
  ELSE FormsByName(k.workspaceId, k.formSlug)

\* C20: getFormBySlug and getFormByPath go on with a workspace only when
\* exactly one matches, and return a form only when exactly one matches
C20_Original ==
  [][\A c \in Callers :
       (WorkspaceStepOf(c) /\ wcall[c].op \in {"getFormBySlug", "getFormByPath"}) =>
         /\ (wcall[c].pc = "workspace" /\ wcall'[c].pc = "form") =>
              Cardinality(WorkspaceMatches(wcall[c])) = 1
         /\ (wcall[c].pc = "form" /\ wcall'[c].status = 200) =>
              Cardinality(FormMatches(wcall[c])) = 1]_vars

C22_Original ==
  \A c \in Callers : fcall[c].pc = "done" => fcall[c].error # "unique_violation"

SettingsOf(rows, formId) == {s \in rows : s.form_id = formId}

DeleteFormTables == <<question_choices, questions, form_settings, forms>>

C24_Original ==
  [][\A c \in Callers :
       (/\ ccall[c].pc \in {"delete_choices", "insert_choices"}
        /\ ccall'[c].pc = "done" /\ ccall'[c].result = "ok") =>
         LET rows == ChoicesOfQuestion(question_choices', ccall[c].questionId)
             C    == ccall[c].choices
         IN  /\ Cardinality(rows) = Len(C)
             /\ \A i \in DOMAIN C : \E ch \in rows : ch.text = C[i] /\ ch.order = i]_vars

\* the ids of the list are different choices of the question
ListsChoicesOf(questionId, l) ==
  /\ \A i \in DOMAIN l : \E ch \in ChoicesOfQuestion(question_choices, questionId) : ch.id = l[i]
  /\ \A i, j \in DOMAIN l : i # j => l[i] # l[j]

\* C25: after reorderQuestionChoices(questionId, choiceIds) the choice at
\* zero-based position i of choiceIds has order i
C25_Original ==
  [][\A c \in Callers, l \in ReorderChoiceLists :
       (ListsChoicesOf(1, l) /\ ReorderQuestionChoices(c, 1, l)) =>
         \A i \in DOMAIN l :
           \E ch \in question_choices' : ch.id = l[i] /\ ch.order = i - 1]_vars

\* ------------------------------------------------------------------------
\* Properties of concurrent and repeated calls (SpecQuestion, SpecSubmission)
\* ------------------------------------------------------------------------
\* the parent, the parent's parent, ... of a question, at most n steps up
RECURSIVE AncestorChain(_, _, _)
AncestorChain(rows, id, n) ==
  IF n = 0 \/ ~HasQuestion(rows, id) THEN {}
  ELSE LET p == QuestionRow(rows, id).parent_id
       IN  IF p = Null THEN {} ELSE {p} \cup AncestorChain(rows, p, n - 1)

\* C27: in every state the parent relation over questions has no cycle and
\* every question's parent is a question of the same form
C27_Original ==
  \A r \in questions :
    /\ r.id \notin AncestorChain(questions, r.id, Cardinality(questions))
    /\ r.parent_id # Null =>
         /\ HasQuestion(questions, r.parent_id)
         /\ QuestionRow(questions, r.parent_id).form_id = r.form_id

\* C28: two createQuestion calls on one form, however their steps interleave,
\* leave their two questions with different order values: no two questions
\* of a form share an order
C28_Original ==
  \A r, q \in questions :
    (r.id # q.id /\ r.form_id = q.form_id) => r.order # q.order

\* C29: two startSubmission calls for one (form, email) without a row,
\* however their steps interleave, both return the submission: no
\* startSubmission call with a well-formed email ends in an error
C29_Original ==
  \A c \in Callers :
    (scall[c].pc = "done" /\ scall[c].op = "start") => scall[c].status # 500

\* ------------------------------------------------------------------------
\* Properties of the shareable link (SpecWorkspace)
\* ------------------------------------------------------------------------
\* the path part of the shareable link of form f in workspace w
ShareablePath(w, f) == <<_createSlug(w.name), _createSlug(f.name)>>

\* C30: a getFormByPath call with the path of form F's shareable link
\* answers with F itself, for every form F
C30_Original ==
  [][\A c \in Callers, f \in forms, w \in workspaces :
       (/\ w.id = f.workspace_id
        /\ WorkspaceStepOf(c) /\ wcall[c].op = "getFormByPath"
        /\ <<wcall[c].workspaceSlug, wcall[c].formSlug>> = ShareablePath(w, f)
        /\ wcall'[c].pc = "done") =>
          wcall'[c].status = 200 /\ wcall'[c].data = f.id]_vars
====
